---- MODULE Spec2Model ----
(***************************************************************************)
(* A model of the Stake entity and the StakesCollection store of mlw-rust: *)
(* ID issuance, insertion, update, lookup, hierarchy queries and the       *)
(* two-field wire encoding (src/entities/stake.rs,                         *)
(* src/entities/stakes_collection.rs, src/mlw.rs).                         *)
(***************************************************************************)
EXTENDS Integers, Sequences, FiniteSets, TLC

\* ------------------------------------------------------------------ bounds

\* At most MaxLen Stakes are stored in the collection.
MaxLen == 2
\* generate_id is called while next_id <= MaxId.
MaxId == 3
\* The Stakes handed to the collection carry ids 1..MaxStakeId.
MaxStakeId == 2
\* A document handed to the decoder has at most MaxEntries top-level entries.
MaxEntries == 3
\* A query handed to search_by_name has at most MaxQuery chars.
MaxQuery == 3
\* Utc::now() returns a time in 0..MaxTime, in nanoseconds.
MaxTime == 1
\* new_area is called while the MLW holds fewer than MaxAreas areas.
MaxAreas == 1
\* the most Stakes the three collections of an MLW hold together
MaxStakes == 2

\* ---------------------------------------------------------------- constants

\* StakeId wraps a u32. A u32 is held as the 32-bit two's-complement integer
\* with the same bits: 0..2147483647 as themselves, 2147483648..4294967295 as
\* -2147483648..-1. U32_MAX is 4294967295 and I32_MAX the last value held as itself.
U32_MAX == -1
I32_MAX == 2147483647
\* DateTime<Utc> has nanosecond resolution; a timestamp is a count of nanoseconds.
NanosPerSec == 1000000000

\* ------------------------------------------------------------------ options

\* Option<T>: None is the empty sequence, Some(x) the one-element sequence.
None == <<>>
Some(x) == <<x>>
IsSome(o) == o # <<>>
Unwrap(o) == o[1]

\* ------------------------------------------------------------------- Stake

\* u32 < u32, on the two's-complement holding of the operands.
u32_lt(a, b) == IF (a < 0) = (b < 0) THEN a < b ELSE b < 0

\* u32 + 1 as the release build computes it: 4294967295 + 1 wraps to 0.
u32_wrapping_inc(n) ==
    IF n = U32_MAX THEN 0
    ELSE IF n = I32_MAX THEN (0 - I32_MAX) - 1
    ELSE n + 1

\* struct StakeId(pub u32)
StakeId(n) == n

\* Stake::new reading the clock once per timestamp: date_modified comes from
\* a later reading than date_created.
Stake_new_two_readings(stake_id, stake_name, parent_id, note, now_) ==
    [stake_id |-> stake_id,
     stake_name |-> stake_name,
     parent_id |-> parent_id,
     complete |-> FALSE,
     dropped |-> FALSE,
     note |-> note,
     date_modified |-> now_ + 1,
     date_created |-> now_]

\* Stake::new(stake_id, stake_name, parent_id, note), with now the value of Utc::now().
Stake_new(stake_id, stake_name, parent_id, note, now) ==
    [stake_id |-> stake_id,
     stake_name |-> stake_name,
     parent_id |-> parent_id,
     complete |-> FALSE,
     dropped |-> FALSE,
     note |-> note,
     date_modified |-> now,
     date_created |-> now]

\* mark_complete leaving date_modified as it was.
mark_complete_keeps_date(s, now_) == [s EXCEPT !.complete = TRUE]

\* mark_complete treating the flags as exclusive: it clears dropped.
mark_complete_clears_dropped(s, now_) ==
    [s EXCEPT !.complete = TRUE, !.dropped = FALSE, !.date_modified = now_]

\* A mark_complete that stamps both dates.
mark_complete_stamps_created(s, now_) ==
    [s EXCEPT !.complete = TRUE, !.date_modified = now_, !.date_created = now_]

\* Stake::mark_complete(&mut self), with now the value of Utc::now().
mark_complete(s, now) == [s EXCEPT !.complete = TRUE, !.date_modified = now]

\* mark_dropped leaving date_modified as it was.
mark_dropped_keeps_date(s, now_) == [s EXCEPT !.dropped = TRUE]

\* mark_dropped reopening the Stake: it clears complete.
mark_dropped_reopens(s, now_) ==
    [s EXCEPT !.dropped = TRUE, !.complete = FALSE, !.date_modified = now_]

\* Stake::mark_dropped(&mut self), with now the value of Utc::now().
mark_dropped(s, now) == [s EXCEPT !.dropped = TRUE, !.date_modified = now]

\* is_active looking at dropped only.
is_active_ignoring_complete(s) == ~s.dropped

\* Stake::is_active(&self)
is_active(s) == ~s.dropped /\ ~s.complete

\* A Stake built outside the collection, as the callers and the tests' helper
\* build one: Stake::new, then the public fields assigned.
create_test_stake(id, name, parent_id, complete, dropped, note, created, modified) ==
    [Stake_new(StakeId(id), name, parent_id, note, created)
        EXCEPT !.complete = complete, !.dropped = dropped, !.date_modified = modified]

\* --------------------------------------------------------------------- text

\* A String or &str is the sequence of its chars, each char a one-character string.

\* char::is_whitespace
is_whitespace(ch) == ch \in {" ", "\t", "\n", "\r"}

\* str::trim_start: the text after its leading whitespace.
RECURSIVE trim_start(_)
trim_start(s) ==
    IF s = <<>> THEN s
    ELSE IF is_whitespace(Head(s)) THEN trim_start(Tail(s))
    ELSE s

\* str::trim_end: the text before its trailing whitespace.
RECURSIVE trim_end(_)
trim_end(s) ==
    IF s = <<>> THEN s
    ELSE IF is_whitespace(s[Len(s)]) THEN trim_end(SubSeq(s, 1, Len(s) - 1))
    ELSE s

\* str::trim
trim(s) == trim_end(trim_start(s))

\* char::to_lowercase on the letters the names and queries are written in.
char_to_lowercase(ch) ==
    IF ch = "A" THEN "a"
    ELSE IF ch = "B" THEN "b"
    ELSE ch

\* str::to_lowercase: the text with every char lower-cased.
to_lowercase(s) == [i \in DOMAIN s |-> char_to_lowercase(s[i])]

\* str::contains(&pattern): the pattern is tried at every position of the
\* text, front to back; the empty pattern is found in every text.
contains(haystack, needle) ==
    LET n == Len(needle)
        from[k \in 1..(Len(haystack) + 2)] ==
            IF k + n - 1 > Len(haystack) THEN FALSE
            ELSE IF SubSeq(haystack, k, k + n - 1) = needle THEN TRUE
            ELSE from[k + 1]
    IN  from[1]

\* ------------------------------------------------------------ StakesCollection

\* struct StakesCollection { stakes: Vec<Stake>, next_id: StakeId }
Collection(stakes_, next_id_) == [stakes |-> stakes_, next_id |-> next_id_]

\* new() starting the counter at 0.
new_zero_based == Collection(<<>>, StakeId(0))

\* StakesCollection::new()
new == Collection(<<>>, StakeId(1))

\* add_stake refusing a Stake whose id a stored Stake already carries.
add_stake_unless_stored(c, stake) ==
    IF \E i \in DOMAIN c.stakes : c.stakes[i].stake_id = stake.stake_id THEN c
    ELSE [c EXCEPT !.stakes = Append(c.stakes, stake)]

\* An add_stake that inserts the Stake at the front.
add_stake_at_front(c, stake) == [c EXCEPT !.stakes = <<stake>> \o c.stakes]

\* An add_stake that assigns the Stake where it should push it.
add_stake_assigning(c, stake) == [c EXCEPT !.stakes = <<stake>>]

\* StakesCollection::add_stake(&mut self, stake)
add_stake(c, stake) == [c EXCEPT !.stakes = Append(c.stakes, stake)]

\* StakesCollection::len(&self)
len(c) == Len(c.stakes)

\* StakesCollection::is_empty(&self)
is_empty(c) == c.stakes = <<>>

\* Iterator::find over a Vec, hit[i] telling whether v[i] passes the test: the
\* first element that passes, if any.
find(v, hit) ==
    LET from[i \in 1..(Len(v) + 1)] ==
            IF i > Len(v) THEN None
            ELSE IF hit[i] THEN Some(v[i])
            ELSE from[i + 1]
    IN from[1]

\* Iterator::filter(...).collect() over a Vec, keep[i] telling whether v[i]
\* passes the test: the elements that pass, visited front to back and pushed
\* in that order.
filter(v, keep) ==
    LET upto[i \in 0..Len(v)] ==
            IF i = 0 THEN <<>>
            ELSE IF keep[i] THEN Append(upto[i - 1], v[i])
            ELSE upto[i - 1]
    IN upto[Len(v)]

\* get_by_id scanning from the back: the last Stake with the id, not the first.
get_by_id_last(c, id) ==
    LET from[i \in 0..Len(c.stakes)] ==
            IF i = 0 THEN None
            ELSE IF c.stakes[i].stake_id = id THEN Some(c.stakes[i])
            ELSE from[i - 1]
    IN from[Len(c.stakes)]

\* A get_by_id that falls back on the Stake added last when none has the id.
get_by_id_or_last(c, id) ==
    LET found == get_by_id_last(c, id) IN
    IF found # None \/ c.stakes = <<>> THEN found
    ELSE Some(c.stakes[Len(c.stakes)])

\* StakesCollection::get_by_id(&self, id)
get_by_id(c, id) ==
    find(c.stakes, [i \in DOMAIN c.stakes |-> c.stakes[i].stake_id = id])

\* active_stakes keeping every Stake that is not dropped, complete or not.
active_stakes_not_dropped(c) ==
    filter(c.stakes, [i \in DOMAIN c.stakes |-> ~c.stakes[i].dropped])

\* StakesCollection::active_stakes(&self)
active_stakes(c) ==
    filter(c.stakes, [i \in DOMAIN c.stakes |-> is_active(c.stakes[i])])

\* completed_stakes keeping every Stake that is not active, dropped or complete.
completed_stakes_not_active(c) ==
    filter(c.stakes, [i \in DOMAIN c.stakes |-> ~is_active(c.stakes[i])])

\* StakesCollection::completed_stakes(&self)
completed_stakes(c) ==
    filter(c.stakes, [i \in DOMAIN c.stakes |-> c.stakes[i].complete])

\* generate_id returning the counter after the increment instead of before it.
generate_id_returns_incremented(c) ==
    [ret |-> StakeId(u32_wrapping_inc(c.next_id)),
     coll |-> [c EXCEPT !.next_id = StakeId(u32_wrapping_inc(c.next_id))]]

\* generate_id without the increment of the counter.
generate_id_no_increment(c) == [ret |-> c.next_id, coll |-> c]

\* generate_id returning the last id issued instead of the counter.
generate_id_returns_last(c) ==
    [ret |-> IF c.next_id = 0 THEN U32_MAX ELSE c.next_id - 1,
     coll |-> [c EXCEPT !.next_id = StakeId(u32_wrapping_inc(c.next_id))]]

\* StakesCollection::generate_id(&mut self): the id returned and the collection after.
generate_id(c) ==
    [ret |-> c.next_id,
     coll |-> [c EXCEPT !.next_id = StakeId(u32_wrapping_inc(c.next_id))]]

\* generate_id in either build: `self.next_id.0 += 1` at 4294967295 panics
\* before it writes where overflow checks are compiled in (the debug profile)
\* and wraps to 0 where they are not (the release profile). Below that value
\* the two builds agree.
generate_id_in_build(c, overflow_checks) ==
    IF overflow_checks /\ c.next_id = U32_MAX
    THEN [panicked |-> TRUE, ret |-> None, coll |-> c]
    ELSE [panicked |-> FALSE, ret |-> Some(generate_id(c).ret),
          coll |-> generate_id(c).coll]

\* search_by_name comparing the Stake's name as stored, not lower-cased.
search_by_name_name_as_stored(c, q) ==
    LET lower_query == to_lowercase(trim(q)) IN
    IF lower_query = <<>> THEN c.stakes
    ELSE filter(c.stakes,
                [i \in DOMAIN c.stakes |-> contains(c.stakes[i].stake_name, lower_query)])

\* StakesCollection::search_by_name(&self, query)
search_by_name(c, q) ==
    LET lower_query == to_lowercase(trim(q)) IN
    IF lower_query = <<>> THEN c.stakes
    ELSE filter(c.stakes,
                [i \in DOMAIN c.stakes |->
                    contains(to_lowercase(c.stakes[i].stake_name), lower_query)])

\* get_children testing the Stake's own id instead of its parent_id.
get_children_by_own_id(c, parent_id) ==
    filter(c.stakes, [i \in DOMAIN c.stakes |-> c.stakes[i].stake_id = parent_id])

\* StakesCollection::get_children(&self, parent_id)
get_children(c, parent_id) ==
    filter(c.stakes, [i \in DOMAIN c.stakes |-> c.stakes[i].parent_id = Some(parent_id)])

\* StakesCollection::next_id(&self): the counter, not consumed.
next_id_peek(c) == c.next_id

\* The position of the first Stake of v whose id is id, 0 when there is none.
RECURSIVE position(_, _, _)
position(v, id, i) ==
    IF i > Len(v) THEN 0
    ELSE IF v[i].stake_id = id THEN i
    ELSE position(v, id, i + 1)

\* update_stake inserting the Stake when no stored Stake has its id.
update_stake_or_insert(c, stake) ==
    LET i == position(c.stakes, stake.stake_id, 1) IN
    IF i = 0
    THEN [ret |-> "StakeNotFound", coll |-> [c EXCEPT !.stakes = Append(c.stakes, stake)]]
    ELSE [ret |-> "Ok", coll |-> [c EXCEPT !.stakes[i] = stake]]

\* update_stake removing the matching Stake and pushing the new value at the end.
update_stake_at_end(c, stake) ==
    LET i == position(c.stakes, stake.stake_id, 1) IN
    IF i = 0
    THEN [ret |-> "StakeNotFound", coll |-> c]
    ELSE [ret |-> "Ok",
          coll |-> [c EXCEPT !.stakes =
                        Append(SubSeq(c.stakes, 1, i - 1) \o SubSeq(c.stakes, i + 1, Len(c.stakes)),
                               stake)]]

\* StakesCollection::update_stake(&mut self, stake): the result and the collection after.
update_stake(c, stake) ==
    LET i == position(c.stakes, stake.stake_id, 1) IN
    IF i = 0
    THEN [ret |-> "StakeNotFound", coll |-> c]
    ELSE [ret |-> "Ok", coll |-> [c EXCEPT !.stakes[i] = stake]]

\* MLW::new_area(&mut self, name, note), with now the value of Utc::now(): the
\* Stake returned and the collection after. new_project and new_task are the
\* same on their collection, with the parent the caller gives.
new_area(c, name, note, now_) ==
    LET g == generate_id(c)
        new_area_stake == Stake_new(g.ret, name, None, note, now_)
    IN  [ret |-> new_area_stake, coll |-> add_stake(g.coll, new_area_stake)]

\* MLW::update_area(&mut self, stake)
update_area(c, stake) == update_stake(c, stake)

\* MLW::mark_area_complete(&mut self, id), with now the value of Utc::now():
\* the first Stake with the id is cloned, marked and handed to update_stake.
\* mark_project_complete and mark_task_complete are the same on their collection.
mark_area_complete(c, id, now_) ==
    LET found == get_by_id(c, id) IN
    IF found = None THEN [ret |-> "StakeNotFound", coll |-> c]
    ELSE update_stake(c, mark_complete(Unwrap(found), now_))

\* MLW::mark_area_dropped(&mut self, id), with now the value of Utc::now().
\* mark_project_dropped and mark_task_dropped are the same on their collection.
mark_area_dropped(c, id, now_) ==
    LET found == get_by_id(c, id) IN
    IF found = None THEN [ret |-> "StakeNotFound", coll |-> c]
    ELSE update_stake(c, mark_dropped(Unwrap(found), now_))

\* struct MLW { areas, projects, tasks }
MLW(areas_, projects_, tasks_) ==
    [areas |-> areas_, projects |-> projects_, tasks |-> tasks_]

\* A new_project written as new_area is: the Stake gets no parent.
new_project_without_parent(m, name, parent_id, note, now_) ==
    LET g == generate_id(m.projects)
        new_project_stake == Stake_new(g.ret, name, None, note, now_)
    IN  [ret |-> new_project_stake,
         mlw |-> [m EXCEPT !.projects = add_stake(g.coll, new_project_stake)]]

\* MLW::new_project(&mut self, name, parent_id, note), with now the value of
\* Utc::now(): the Stake returned and the MLW after.
new_project(m, name, parent_id, note, now_) ==
    LET g == generate_id(m.projects)
        new_project_stake == Stake_new(g.ret, name, parent_id, note, now_)
    IN  [ret |-> new_project_stake,
         mlw |-> [m EXCEPT !.projects = add_stake(g.coll, new_project_stake)]]

\* MLW::get_project_by_id(&self, id)
get_project_by_id(m, id) == get_by_id(m.projects, id)

\* MLW::update_project(&mut self, stake)
update_project(m, stake) ==
    LET r == update_stake(m.projects, stake) IN
    [ret |-> r.ret, mlw |-> [m EXCEPT !.projects = r.coll]]

\* MLW::mark_project_complete(&mut self, id), with now the value of Utc::now()
mark_project_complete(m, id, now_) ==
    LET found == get_by_id(m.projects, id) IN
    IF found = None THEN [ret |-> "StakeNotFound", mlw |-> m]
    ELSE LET r == update_stake(m.projects, mark_complete(Unwrap(found), now_)) IN
         [ret |-> r.ret, mlw |-> [m EXCEPT !.projects = r.coll]]

\* A mark_project_dropped left as the copy of mark_project_complete it began as.
mark_project_dropped_completing(m, id, now_) ==
    LET found == get_by_id(m.projects, id) IN
    IF found = None THEN [ret |-> "StakeNotFound", mlw |-> m]
    ELSE LET r == update_stake(m.projects, mark_complete(Unwrap(found), now_)) IN
         [ret |-> r.ret, mlw |-> [m EXCEPT !.projects = r.coll]]

\* MLW::mark_project_dropped(&mut self, id), with now the value of Utc::now()
mark_project_dropped(m, id, now_) ==
    LET found == get_by_id(m.projects, id) IN
    IF found = None THEN [ret |-> "StakeNotFound", mlw |-> m]
    ELSE LET r == update_stake(m.projects, mark_dropped(Unwrap(found), now_)) IN
         [ret |-> r.ret, mlw |-> [m EXCEPT !.projects = r.coll]]

\* A new_task that takes its id from the projects' counter.
new_task_with_project_id(m, name, parent_id, note, now_) ==
    LET g == generate_id(m.projects)
        new_task_stake == Stake_new(g.ret, name, parent_id, note, now_)
    IN  [ret |-> new_task_stake,
         mlw |-> [m EXCEPT !.projects = g.coll,
                           !.tasks = add_stake(m.tasks, new_task_stake)]]

\* MLW::new_task(&mut self, name, parent_id, note), with now the value of
\* Utc::now(): the Stake returned and the MLW after.
new_task(m, name, parent_id, note, now_) ==
    LET g == generate_id(m.tasks)
        new_task_stake == Stake_new(g.ret, name, parent_id, note, now_)
    IN  [ret |-> new_task_stake,
         mlw |-> [m EXCEPT !.tasks = add_stake(g.coll, new_task_stake)]]

\* MLW::get_task_by_id(&self, id)
get_task_by_id(m, id) == get_by_id(m.tasks, id)

\* MLW::update_task(&mut self, stake)
update_task(m, stake) ==
    LET r == update_stake(m.tasks, stake) IN
    [ret |-> r.ret, mlw |-> [m EXCEPT !.tasks = r.coll]]

\* A mark_task_complete that creates the task it does not find.
mark_task_complete_or_create(m, id, now_) ==
    LET found == get_by_id(m.tasks, id) IN
    IF found = None
    THEN [ret |-> "Ok",
          mlw |-> [m EXCEPT !.tasks =
                    add_stake(m.tasks,
                              mark_complete(Stake_new(id, <<>>, None, None, now_), now_))]]
    ELSE LET r == update_stake(m.tasks, mark_complete(Unwrap(found), now_)) IN
         [ret |-> r.ret, mlw |-> [m EXCEPT !.tasks = r.coll]]

\* MLW::mark_task_complete(&mut self, id), with now the value of Utc::now()
mark_task_complete(m, id, now_) ==
    LET found == get_by_id(m.tasks, id) IN
    IF found = None THEN [ret |-> "StakeNotFound", mlw |-> m]
    ELSE LET r == update_stake(m.tasks, mark_complete(Unwrap(found), now_)) IN
         [ret |-> r.ret, mlw |-> [m EXCEPT !.tasks = r.coll]]

\* MLW::mark_task_dropped(&mut self, id), with now the value of Utc::now()
mark_task_dropped(m, id, now_) ==
    LET found == get_by_id(m.tasks, id) IN
    IF found = None THEN [ret |-> "StakeNotFound", mlw |-> m]
    ELSE LET r == update_stake(m.tasks, mark_dropped(Unwrap(found), now_)) IN
         [ret |-> r.ret, mlw |-> [m EXCEPT !.tasks = r.coll]]

\* ------------------------------------------------------------- wire encoding

\* A document value, tagged with its kind. An object is a sequence of
\* <<key, value>> entries in document order; an array a sequence of values.
JNull == [type |-> "null"]
JBool(b) == [type |-> "bool", value |-> b]
JNum(n) == [type |-> "number", value |-> n]
JStr(s) == [type |-> "string", value |-> s]
JArr(v) == [type |-> "array", value |-> v]
JObj(entries) == [type |-> "object", value |-> entries]

\* Results: Ok(v) carries a value, Err(e) the kind of decode error.
Ok(v) == [ok |-> TRUE, value |-> v]
Err(e) == [ok |-> FALSE, error |-> e]

\* The RFC 3339 text cut to whole seconds.
to_rfc3339_whole_seconds(t) == JStr(<<t \div NanosPerSec, 0>>)

\* DateTime<Utc> as serde writes it: the RFC 3339 text, whole seconds and the
\* fraction of a second kept to the nanosecond.
to_rfc3339(t) == JStr(<<t \div NanosPerSec, t % NanosPerSec>>)

\* DateTime<Utc> as serde reads it back from the RFC 3339 text.
parse_from_rfc3339(j) ==
    IF j.type # "string" THEN Err("invalid_type")
    ELSE Ok(j.value[1] * NanosPerSec + j.value[2])

\* Option<StakeId> on the wire: the bare integer, or null.
serialize_option_id(o) == IF o = None THEN JNull ELSE JNum(Unwrap(o))

deserialize_option_id(j) ==
    IF j.type = "null" THEN Ok(None)
    ELSE IF j.type # "number" THEN Err("invalid_type")
    ELSE Ok(Some(StakeId(j.value)))

\* Option<String> on the wire: the string, or null.
serialize_option_string(o) == IF o = None THEN JNull ELSE JStr(Unwrap(o))

deserialize_option_string(j) ==
    IF j.type = "null" THEN Ok(None)
    ELSE IF j.type # "string" THEN Err("invalid_type")
    ELSE Ok(Some(j.value))

\* u32 read from the wire.
deserialize_u32(j) == IF j.type # "number" THEN Err("invalid_type") ELSE Ok(j.value)

deserialize_string(j) == IF j.type # "string" THEN Err("invalid_type") ELSE Ok(j.value)

deserialize_bool(j) == IF j.type # "bool" THEN Err("invalid_type") ELSE Ok(j.value)

\* #[derive(Serialize)] for Stake: the fields in declaration order.
serialize_stake(s) ==
    JObj(<< <<"stake_id", JNum(s.stake_id)>>,
            <<"stake_name", JStr(s.stake_name)>>,
            <<"parent_id", serialize_option_id(s.parent_id)>>,
            <<"complete", JBool(s.complete)>>,
            <<"dropped", JBool(s.dropped)>>,
            <<"note", serialize_option_string(s.note)>>,
            <<"date_modified", to_rfc3339(s.date_modified)>>,
            <<"date_created", to_rfc3339(s.date_created)>> >>)

\* The values an object holds under a key, in document order.
values_of(entries, key) ==
    LET upto[i \in 0..Len(entries)] ==
            IF i = 0 THEN <<>>
            ELSE IF entries[i][1] = key THEN Append(upto[i - 1], entries[i][2])
            ELSE upto[i - 1]
    IN upto[Len(entries)]

\* One field of a derived Deserialize: a key given twice is an error, a key
\* not given is an error unless the field is an Option (then it reads as null).
read_field(entries, key, optional) ==
    LET vs == values_of(entries, key) IN
    IF Len(vs) > 1 THEN Err("duplicate_field")
    ELSE IF Len(vs) = 0 THEN (IF optional THEN Ok(JNull) ELSE Err("missing_field"))
    ELSE Ok(vs[1])

\* #[derive(Deserialize)] for Stake; keys that are no field of Stake are ignored.
deserialize_stake(j) ==
    IF j.type # "object" THEN Err("invalid_type")
    ELSE
    LET e == j.value
        f1 == read_field(e, "stake_id", FALSE)
        f2 == read_field(e, "stake_name", FALSE)
        f3 == read_field(e, "parent_id", TRUE)
        f4 == read_field(e, "complete", FALSE)
        f5 == read_field(e, "dropped", FALSE)
        f6 == read_field(e, "note", TRUE)
        f7 == read_field(e, "date_modified", FALSE)
        f8 == read_field(e, "date_created", FALSE)
        stake_id == IF f1.ok THEN deserialize_u32(f1.value) ELSE f1
        stake_name == IF f2.ok THEN deserialize_string(f2.value) ELSE f2
        parent_id == IF f3.ok THEN deserialize_option_id(f3.value) ELSE f3
        complete == IF f4.ok THEN deserialize_bool(f4.value) ELSE f4
        dropped == IF f5.ok THEN deserialize_bool(f5.value) ELSE f5
        note == IF f6.ok THEN deserialize_option_string(f6.value) ELSE f6
        date_modified == IF f7.ok THEN parse_from_rfc3339(f7.value) ELSE f7
        date_created == IF f8.ok THEN parse_from_rfc3339(f8.value) ELSE f8
        all == <<stake_id, stake_name, parent_id, complete, dropped, note,
                 date_modified, date_created>>
    IN  IF \E i \in DOMAIN all : ~all[i].ok
        THEN Err((all[CHOOSE i \in DOMAIN all :
                        ~all[i].ok /\ \A k \in 1..(i - 1) : all[k].ok]).error)
        ELSE Ok([stake_id |-> StakeId(stake_id.value),
                 stake_name |-> stake_name.value,
                 parent_id |-> parent_id.value,
                 complete |-> complete.value,
                 dropped |-> dropped.value,
                 note |-> note.value,
                 date_modified |-> date_modified.value,
                 date_created |-> date_created.value])

\* Vec<Stake> on the wire: the array of the Stakes, in order.
serialize_stakes(v) == JArr([i \in DOMAIN v |-> serialize_stake(v[i])])

deserialize_stakes(j) ==
    IF j.type # "array" THEN Err("invalid_type")
    ELSE
    LET each == [i \in DOMAIN j.value |-> deserialize_stake(j.value[i])] IN
    IF \E i \in DOMAIN each : ~each[i].ok
    THEN Err((each[CHOOSE i \in DOMAIN each :
                    ~each[i].ok /\ \A k \in 1..(i - 1) : each[k].ok]).error)
    ELSE Ok([i \in DOMAIN each |-> each[i].value])

\* serialize writing the last id issued under nextId instead of the counter.
serialize_last_issued(c) ==
    JObj(<< <<"nextId", JNum(IF c.next_id = 0 THEN U32_MAX ELSE c.next_id - 1)>>,
            <<"stakes", serialize_stakes(c.stakes)>> >>)

\* impl Serialize for StakesCollection: a map of two entries, nextId then stakes.
serialize(c) ==
    JObj(<< <<"nextId", JNum(c.next_id)>>,
            <<"stakes", serialize_stakes(c.stakes)>> >>)

\* const FIELDS
FIELDS == {"nextId", "stakes"}

\* FieldVisitor::visit_str: the Field a key names, or the unknown_field error.
visit_str(value) ==
    IF value = "nextId" THEN Ok("NextId")
    ELSE IF value = "stakes" THEN Ok("Stakes")
    ELSE Err("unknown_field")

\* visit_map skipping the keys that name no field instead of rejecting them.
RECURSIVE visit_map_skipping_unknown(_, _, _)
visit_map_skipping_unknown(map, next_id_, stakes_) ==
    IF map = <<>>
    THEN IF next_id_ = None THEN Err("missing_field")
         ELSE IF stakes_ = None THEN Err("missing_field")
         ELSE Ok(Collection(Unwrap(stakes_), StakeId(Unwrap(next_id_))))
    ELSE
    LET key == Head(map)[1]
        value == Head(map)[2]
    IN  IF key = "nextId"
        THEN IF next_id_ # None THEN Err("duplicate_field")
             ELSE visit_map_skipping_unknown(Tail(map), Some(value.value), stakes_)
        ELSE IF key = "stakes"
        THEN IF stakes_ # None THEN Err("duplicate_field")
             ELSE LET v == deserialize_stakes(value) IN
                  IF ~v.ok THEN v
                  ELSE visit_map_skipping_unknown(Tail(map), next_id_, Some(v.value))
        ELSE visit_map_skipping_unknown(Tail(map), next_id_, stakes_)

\* StakesCollectionVisitor::visit_map: the loop over the map's entries, with
\* the next_id and stakes read so far, then the two missing-field checks.
RECURSIVE visit_map(_, _, _)
visit_map(map, next_id_, stakes_) ==
    IF map = <<>>
    THEN IF next_id_ = None THEN Err("missing_field")
         ELSE IF stakes_ = None THEN Err("missing_field")
         ELSE Ok(Collection(Unwrap(stakes_), StakeId(Unwrap(next_id_))))
    ELSE
    LET key == visit_str(Head(map)[1])
        value == Head(map)[2]
    IN  IF ~key.ok THEN key
        ELSE IF key.value = "NextId"
        THEN IF next_id_ # None THEN Err("duplicate_field")
             ELSE LET n == deserialize_u32(value) IN
                  IF ~n.ok THEN n ELSE visit_map(Tail(map), Some(n.value), stakes_)
        ELSE IF stakes_ # None THEN Err("duplicate_field")
             ELSE LET v == deserialize_stakes(value) IN
                  IF ~v.ok THEN v ELSE visit_map(Tail(map), next_id_, Some(v.value))

\* impl Deserialize for StakesCollection: deserialize_struct hands a map to visit_map.
deserialize(j) ==
    IF j.type # "object" THEN Err("invalid_type")
    ELSE visit_map(j.value, None, None)

\* ------------------------------------------------------------------- inputs

\* The Stakes callers hand to add_stake and update_stake: for each id a fresh
\* top-level Stake, a top-level Stake completed and dropped, and a child of
\* Stake 1 and of Stake 2, differing in name, flags, note and dates.
StakeInputs ==
    UNION { {create_test_stake(id, <<"a">>, None, FALSE, FALSE, None, 0, 0),
             create_test_stake(id, <<"a">>, None, TRUE, TRUE, Some(<<"n">>), 0, NanosPerSec),
             create_test_stake(id, <<"B">>, Some(StakeId(1)), TRUE, FALSE, None, 0, 1),
             create_test_stake(id, <<"B">>, Some(StakeId(2)), FALSE, TRUE, Some(<<"n">>),
                               1, NanosPerSec + 1)}
          : id \in 1..MaxStakeId }

\* The collections the store's operations build from these Stakes: add_stake
\* appends any of them, and next_id is 1 (generate_id never called) or
\* MaxId + 1 (generate_id called MaxId times).
CollectionInputs ==
    { Collection(v, StakeId(n)) :
        v \in UNION { [1..k -> StakeInputs] : k \in 0..MaxLen }, n \in {1, MaxId + 1} }

\* The documents handed to the decoder: every sequence of at most MaxEntries entries
\* taken from the two entries of an encoded collection and one entry under a
\* key that is no field of the collection.
Documents(entries) ==
    LET pool == {entries[i] : i \in DOMAIN entries} \cup {<<"version", JNum(1)>>}
    IN  UNION { [1..n -> pool] : n \in 0..MaxEntries }

\* The Stakes of the collections the read operations are called on: for each
\* id four Stakes, one per combination of the flags, whose names differ in
\* letters, case, length and inner whitespace; one name is empty.
NamedStakeInputs ==
    UNION { {create_test_stake(id, <<"A", "b">>, None, FALSE, FALSE, None, 0, 0),
             create_test_stake(id, <<"b", "a">>, None, TRUE, TRUE, None, 0, 0),
             create_test_stake(id, <<"a", " ", "B">>, None, TRUE, FALSE, None, 0, 0),
             create_test_stake(id, <<>>, None, FALSE, TRUE, None, 0, 0)}
          : id \in 1..MaxStakeId }

\* The collections add_stake builds from these Stakes, ids repeated or not.
QueryCollections ==
    { Collection(v, StakeId(MaxStakeId + 1)) :
        v \in UNION { [1..k -> NamedStakeInputs] : k \in 0..MaxLen } }

\* The queries handed to search_by_name: every text of at most MaxQuery chars
\* over a lower-case letter, an upper-case letter and the space.
Queries == UNION { [1..n -> {"a", "B", " "}] : n \in 0..MaxQuery }

\* The times Utc::now() returns. The clock is the system's wall clock: nothing
\* orders one reading after the one before.
Times == 0..MaxTime

\* The Stakes handed to update_area: for each id a fresh Stake and a renamed
\* copy of it, complete and dropped, modified at the last time the clock can show.
MarkedStakeInputs ==
    UNION { {create_test_stake(id, <<"a">>, None, FALSE, FALSE, None, 0, 0),
             create_test_stake(id, <<"B">>, None, TRUE, TRUE, None, 0, MaxTime)}
          : id \in 1..MaxStakeId }

\* The names, parents and notes handed to Stake::new, the empty name and the
\* absent parent and note among them.
NameInputs == {<<>>, <<"a">>}
ParentInputs == {None, Some(StakeId(1))}
NoteInputs == {None, Some(<<"n">>)}

\* -------------------------------------------------------------------- state

VARIABLES
    stakes,       \* StakesCollection.stakes; of MLW.areas where an MLW is followed
    next_id,      \* StakesCollection.next_id; of MLW.areas where an MLW is followed
    projects,     \* MLW.projects, a StakesCollection
    tasks,        \* MLW.tasks, a StakesCollection
    op,           \* the operation called last ("built": none yet, on a collection built before)
    arg,          \* its Stake argument, if it takes one
    arg_id,       \* its StakeId argument, if it takes one
    ret_id,       \* the StakeId it returned, if it returns one
    ret_res,      \* the Result it returned: "Ok", "StakeNotFound", or "" for none
    ret_list,     \* the Vec<&Stake> it returned, if it returns one
    doc,          \* the document it wrote or read, if any
    decoded,      \* the Result<StakesCollection, _> it decoded, if any
    issued,       \* the ids generate_id has returned, oldest first
    disciplined,  \* every add_stake so far added an issued id not yet stored
    query,        \* its &str argument, if it takes one
    now,          \* the wall-clock time during it, which Utc::now() returns if it
                  \* reads the clock; None for the calls whose time is not followed
    ret_bool,     \* the bool it returned, if it returns one
    ret_stake,    \* the Stake or the Option<&Stake> it returned, if it returns one
    given,        \* the arguments of Stake::new or of new_area, new_project or
                  \* new_task, if it was the call
    ret_len,      \* the usize it returned, if it returns one
    held          \* a Stake its caller holds outside any collection, if any

vars ==
    <<stakes, next_id, projects, tasks, op, arg, arg_id, ret_id, ret_res, ret_list, doc, decoded,
      issued, disciplined, query, now, ret_bool, ret_stake, given, ret_len, held>>

\* The documents a caller can hand to the decoder after an encoding was written.
DocumentInputs == IF doc = None THEN {} ELSE Documents(Unwrap(doc).value)

\* The collection as a value.
Self == Collection(stakes, next_id)

Range(f) == {f[i] : i \in DOMAIN f}

\* The ids of the stored Stakes.
StoredIds == {stakes[i].stake_id : i \in DOMAIN stakes}

\* What a call leaves of the previous call's arguments and results: nothing.
Call(name, stake, id, rid, res, list, d, dec) ==
    /\ op' = name
    /\ arg' = stake
    /\ arg_id' = id
    /\ ret_id' = rid
    /\ ret_res' = res
    /\ ret_list' = list
    /\ doc' = d
    /\ decoded' = dec
    /\ query' = None
    /\ now' = None
    /\ ret_bool' = None
    /\ ret_stake' = None
    /\ given' = None
    /\ ret_len' = None

\* let mut collection = StakesCollection::new();
Init ==
    /\ stakes = new.stakes
    /\ next_id = new.next_id
    /\ projects = new
    /\ tasks = new
    /\ op = "new"
    /\ arg = None
    /\ arg_id = None
    /\ ret_id = None
    /\ ret_res = ""
    /\ ret_list = <<>>
    /\ doc = None
    /\ decoded = None
    /\ issued = <<>>
    /\ disciplined = TRUE
    /\ query = None
    /\ now = None
    /\ ret_bool = None
    /\ ret_stake = None
    /\ given = None
    /\ ret_len = None
    /\ held = None

\* collection.generate_id()
GenerateId ==
    /\ next_id <= MaxId
    /\ LET r == generate_id(Self) IN
        /\ stakes' = r.coll.stakes
        /\ next_id' = r.coll.next_id
        /\ issued' = Append(issued, r.ret)
        /\ Call("generate_id", None, None, Some(r.ret), "", <<>>, None, None)
    /\ UNCHANGED <<disciplined, held>>
    /\ UNCHANGED <<projects, tasks>>

\* collection.add_stake(stake)
AddStake(stake) ==
    /\ Len(stakes) < MaxLen
    /\ LET c == add_stake(Self, stake) IN
        /\ stakes' = c.stakes
        /\ next_id' = c.next_id
    /\ disciplined' =
        (disciplined /\ stake.stake_id \in Range(issued) /\ stake.stake_id \notin StoredIds)
    /\ Call("add_stake", Some(stake), None, None, "", <<>>, None, None)
    /\ UNCHANGED <<issued, held>>
    /\ UNCHANGED <<projects, tasks>>

\* collection.update_stake(stake)
UpdateStake(stake) ==
    /\ LET r == update_stake(Self, stake) IN
        /\ stakes' = r.coll.stakes
        /\ next_id' = r.coll.next_id
        /\ Call("update_stake", Some(stake), None, None, r.ret, <<>>, None, None)
    /\ UNCHANGED <<issued, disciplined, held>>
    /\ UNCHANGED <<projects, tasks>>

\* collection.get_children(&parent_id)
GetChildren(parent_id) ==
    /\ Call("get_children", None, Some(parent_id), None, "",
            get_children(Self, parent_id), None, None)
    /\ UNCHANGED <<stakes, next_id, issued, disciplined, held>>
    /\ UNCHANGED <<projects, tasks>>

\* serde_json::to_string(&collection)
Serialize ==
    /\ Call("serialize", None, None, None, "", <<>>, Some(serialize(Self)), None)
    /\ UNCHANGED <<stakes, next_id, issued, disciplined, held>>
    /\ UNCHANGED <<projects, tasks>>

\* serde_json::from_str::<StakesCollection>(&document), the document made of
\* entries of the encoding just written.
Deserialize(entries) ==
    /\ op = "serialize"
    /\ Call("deserialize", None, None, None, "", <<>>,
            Some(JObj(entries)), Some(deserialize(JObj(entries))))
    /\ UNCHANGED <<stakes, next_id, issued, disciplined, held>>
    /\ UNCHANGED <<projects, tasks>>

Next ==
    \/ GenerateId
    \/ \E stake \in StakeInputs : AddStake(stake)
    \/ \E stake \in StakeInputs : UpdateStake(stake)
    \/ \E parent_id \in 1..(MaxStakeId + 1) : GetChildren(StakeId(parent_id))

\* The store under its operations, from new().
Spec == Init /\ [][Next]_vars

\* A collection the store's operations have built, about to be encoded.
InitCodec ==
    /\ \E c \in CollectionInputs :
        /\ stakes = c.stakes
        /\ next_id = c.next_id
    /\ projects = new
    /\ tasks = new
    /\ op = "built"
    /\ arg = None
    /\ arg_id = None
    /\ ret_id = None
    /\ ret_res = ""
    /\ ret_list = <<>>
    /\ doc = None
    /\ decoded = None
    /\ issued = <<>>
    /\ disciplined = FALSE
    /\ query = None
    /\ now = None
    /\ ret_bool = None
    /\ ret_stake = None
    /\ given = None
    /\ ret_len = None
    /\ held = None

NextCodec ==
    \/ Serialize
    \/ \E entries \in DocumentInputs : Deserialize(entries)

\* The encoder and the decoder applied to the collections the store builds.
SpecCodec == InitCodec /\ [][NextCodec]_vars

\* What a call that neither writes nor reads a document and returns no id
\* leaves of the previous call's arguments and results: nothing.
CallWith(name, stake, id, q, t, res, list, b, found) ==
    /\ op' = name
    /\ arg' = stake
    /\ arg_id' = id
    /\ query' = q
    /\ now' = t
    /\ ret_res' = res
    /\ ret_list' = list
    /\ ret_bool' = b
    /\ ret_stake' = found
    /\ ret_id' = None
    /\ ret_len' = None
    /\ doc' = None
    /\ decoded' = None

\* collection.search_by_name(q)
SearchByName(q) ==
    /\ CallWith("search_by_name", None, None, Some(q), None, "",
                search_by_name(Self, q), None, None)
    /\ given' = None
    /\ UNCHANGED <<stakes, next_id, issued, disciplined, held>>
    /\ UNCHANGED <<projects, tasks>>

\* collection.active_stakes()
ActiveStakes ==
    /\ CallWith("active_stakes", None, None, None, None, "",
                active_stakes(Self), None, None)
    /\ given' = None
    /\ UNCHANGED <<stakes, next_id, issued, disciplined, held>>
    /\ UNCHANGED <<projects, tasks>>

\* collection.completed_stakes()
CompletedStakes ==
    /\ CallWith("completed_stakes", None, None, None, None, "",
                completed_stakes(Self), None, None)
    /\ given' = None
    /\ UNCHANGED <<stakes, next_id, issued, disciplined, held>>
    /\ UNCHANGED <<projects, tasks>>

\* collection.get_by_id(&id)
GetById(id) ==
    /\ CallWith("get_by_id", None, Some(id), None, None, "", <<>>, None,
                Some(get_by_id(Self, id)))
    /\ given' = None
    /\ UNCHANGED <<stakes, next_id, issued, disciplined, held>>
    /\ UNCHANGED <<projects, tasks>>

\* What a read that returns a number, a bool or an id leaves of the previous
\* call's arguments and results: nothing.
CallRead(name, rid, n, b) ==
    /\ op' = name
    /\ arg' = None
    /\ arg_id' = None
    /\ query' = None
    /\ now' = None
    /\ ret_res' = ""
    /\ ret_list' = <<>>
    /\ ret_bool' = b
    /\ ret_stake' = None
    /\ ret_id' = rid
    /\ ret_len' = n
    /\ doc' = None
    /\ decoded' = None
    /\ given' = None

\* collection.len()
GetLen ==
    /\ CallRead("len", None, Some(len(Self)), None)
    /\ UNCHANGED <<stakes, next_id, issued, disciplined, held>>
    /\ UNCHANGED <<projects, tasks>>

\* collection.is_empty()
IsEmpty ==
    /\ CallRead("is_empty", None, None, Some(is_empty(Self)))
    /\ UNCHANGED <<stakes, next_id, issued, disciplined, held>>
    /\ UNCHANGED <<projects, tasks>>

\* collection.next_id(), as mlw.next_area_id() calls it on &self
NextId ==
    /\ CallRead("next_id", Some(next_id_peek(Self)), None, None)
    /\ UNCHANGED <<stakes, next_id, issued, disciplined, held>>
    /\ UNCHANGED <<projects, tasks>>

\* A collection add_stake has built, about to be read.
InitQuery ==
    /\ \E c \in QueryCollections :
        /\ stakes = c.stakes
        /\ next_id = c.next_id
    /\ projects = new
    /\ tasks = new
    /\ op = "built"
    /\ arg = None
    /\ arg_id = None
    /\ ret_id = None
    /\ ret_res = ""
    /\ ret_list = <<>>
    /\ doc = None
    /\ decoded = None
    /\ issued = <<>>
    /\ disciplined = FALSE
    /\ query = None
    /\ now = None
    /\ ret_bool = None
    /\ ret_stake = None
    /\ given = None
    /\ ret_len = None
    /\ held = None

\* A read leaves the collection as it found it and a call leaves nothing of the
\* call before it, so every read is followed from the collection as built.
NextQuery ==
    \/ op = "built" /\ \E q \in Queries : SearchByName(q)
    \/ op = "built" /\ ActiveStakes
    \/ op = "built" /\ CompletedStakes
    \/ op = "built" /\ \E id \in 1..(MaxStakeId + 1) : GetById(StakeId(id))
    \/ op = "built" /\ \E id \in 1..(MaxStakeId + 1) : GetChildren(StakeId(id))
    \/ op = "built" /\ GetLen
    \/ op = "built" /\ IsEmpty
    \/ op = "built" /\ NextId

\* The read operations applied to the collections add_stake builds.
SpecQuery == InitQuery /\ [][NextQuery]_vars

\* let stake = Stake::new(stake_id, stake_name, parent_id, note);
StakeNew(stake_id, stake_name, parent_id, note, t) ==
    /\ held' = Some(Stake_new(stake_id, stake_name, parent_id, note, t))
    /\ CallWith("Stake::new", None, None, None, Some(t), "", <<>>, None, None)
    /\ given' = Some([stake_id |-> stake_id, stake_name |-> stake_name,
                      parent_id |-> parent_id, note |-> note])
    /\ UNCHANGED <<stakes, next_id, issued, disciplined>>
    /\ UNCHANGED <<projects, tasks>>

\* stake.mark_complete(), arg the Stake before the call
StakeMarkComplete(t) ==
    /\ held # None
    /\ held' = Some(mark_complete(Unwrap(held), t))
    /\ CallWith("mark_complete", held, None, None, Some(t), "", <<>>, None, None)
    /\ given' = None
    /\ UNCHANGED <<stakes, next_id, issued, disciplined>>
    /\ UNCHANGED <<projects, tasks>>

\* stake.mark_dropped(), arg the Stake before the call
StakeMarkDropped(t) ==
    /\ held # None
    /\ held' = Some(mark_dropped(Unwrap(held), t))
    /\ CallWith("mark_dropped", held, None, None, Some(t), "", <<>>, None, None)
    /\ given' = None
    /\ UNCHANGED <<stakes, next_id, issued, disciplined>>
    /\ UNCHANGED <<projects, tasks>>

\* stake.is_active(), arg the Stake before the call
StakeIsActive ==
    /\ held # None
    /\ CallWith("is_active", held, None, None, None, "", <<>>,
                Some(is_active(Unwrap(held))), None)
    /\ given' = None
    /\ UNCHANGED <<stakes, next_id, issued, disciplined, held>>
    /\ UNCHANGED <<projects, tasks>>

NextStake ==
    \/ \E id \in 1..MaxStakeId, name \in NameInputs, parent \in ParentInputs,
          note \in NoteInputs, t \in Times :
            StakeNew(StakeId(id), name, parent, note, t)
    \/ \E t \in Times : StakeMarkComplete(t)
    \/ \E t \in Times : StakeMarkDropped(t)
    \/ StakeIsActive

\* One Stake under its own operations, outside any collection.
SpecStake == Init /\ [][NextStake]_vars

\* mlw.new_area(name, note), called when the clock shows t
NewArea(name, note, t) ==
    /\ Len(stakes) < MaxAreas
    /\ LET r == new_area(Self, name, note, t) IN
        /\ stakes' = r.coll.stakes
        /\ next_id' = r.coll.next_id
        /\ issued' = Append(issued, r.ret.stake_id)
        /\ CallWith("new_area", None, None, None, Some(t), "", <<>>, None, Some(r.ret))
    /\ given' = Some([stake_name |-> name, note |-> note])
    /\ UNCHANGED <<disciplined, held>>
    /\ UNCHANGED <<projects, tasks>>

\* mlw.update_area(stake), called when the clock shows t
UpdateArea(stake, t) ==
    /\ LET r == update_area(Self, stake) IN
        /\ stakes' = r.coll.stakes
        /\ next_id' = r.coll.next_id
        /\ CallWith("update_area", Some(stake), None, None, Some(t), r.ret, <<>>,
                    None, None)
    /\ given' = None
    /\ UNCHANGED <<issued, disciplined, held>>
    /\ UNCHANGED <<projects, tasks>>

\* mlw.mark_area_complete(&id), called when the clock shows t
MarkAreaComplete(id, t) ==
    /\ LET r == mark_area_complete(Self, id, t) IN
        /\ stakes' = r.coll.stakes
        /\ next_id' = r.coll.next_id
        /\ CallWith("mark_area_complete", None, Some(id), None, Some(t), r.ret, <<>>,
                    None, None)
    /\ given' = None
    /\ UNCHANGED <<issued, disciplined, held>>
    /\ UNCHANGED <<projects, tasks>>

\* mlw.mark_area_dropped(&id), called when the clock shows t
MarkAreaDropped(id, t) ==
    /\ LET r == mark_area_dropped(Self, id, t) IN
        /\ stakes' = r.coll.stakes
        /\ next_id' = r.coll.next_id
        /\ CallWith("mark_area_dropped", None, Some(id), None, Some(t), r.ret, <<>>,
                    None, None)
    /\ given' = None
    /\ UNCHANGED <<issued, disciplined, held>>
    /\ UNCHANGED <<projects, tasks>>

NextMark ==
    \/ \E t \in Times : NewArea(<<"a">>, None, t)
    \/ \E stake \in MarkedStakeInputs, t \in Times : UpdateArea(stake, t)
    \/ \E id \in 1..(MaxStakeId + 1), t \in Times : MarkAreaComplete(StakeId(id), t)
    \/ \E id \in 1..(MaxStakeId + 1), t \in Times : MarkAreaDropped(StakeId(id), t)

\* The areas of an MLW under its writing operations, from MLW::new(): new_area
\* (generate_id, Stake::new, add_stake), update_area (update_stake) and the two
\* mark helpers (get_by_id, a mark, update_stake).
SpecMark == Init /\ [][NextMark]_vars

\* The Stake the scenario of the testable properties adds as its k-th: "A"
\* under the first id generate_id returned, "B" under the second with parent 1,
\* "C" under the third, dropped before it is added; the note and the clock
\* readings are the caller's and the clock's. None before the three ids are
\* issued and after the three Stakes are added.
ScenarioStakes(k) ==
    IF Len(issued) < 3 \/ k > 3 THEN {}
    ELSE IF k = 1 THEN
        { Stake_new(issued[1], <<"A">>, None, note, t) :
            note \in NoteInputs, t \in Times }
    ELSE IF k = 2 THEN
        { Stake_new(issued[2], <<"B">>, Some(StakeId(1)), note, t) :
            note \in NoteInputs, t \in Times }
    ELSE
        { mark_dropped(Stake_new(issued[3], <<"C">>, None, note, t[1]), t[2]) :
            note \in NoteInputs, t \in Times \X Times }

\* collection.generate_id(), the scenario's first three calls
ScenarioGenerateId ==
    /\ Len(issued) < 3
    /\ GenerateId

\* collection.add_stake(stake), the scenario's next three calls
ScenarioAddStake(stake) ==
    /\ Len(issued) = 3
    /\ Len(stakes) < 3
    /\ LET c == add_stake(Self, stake) IN
        /\ stakes' = c.stakes
        /\ next_id' = c.next_id
    /\ Call("add_stake", Some(stake), None, None, "", <<>>, None, None)
    /\ UNCHANGED <<issued, disciplined, held>>
    /\ UNCHANGED <<projects, tasks>>

\* serde_json::from_str::<StakesCollection>(&json), json the encoding just written
ScenarioDeserialize ==
    /\ doc # None
    /\ Deserialize(Unwrap(doc).value)

NextScenario ==
    \/ ScenarioGenerateId
    \/ \E stake \in ScenarioStakes(Len(stakes) + 1) : ScenarioAddStake(stake)
    \/ Len(stakes) = 3 /\ GetChildren(StakeId(1))
    \/ Len(stakes) = 3 /\ ActiveStakes
    \/ Len(stakes) = 3 /\ CompletedStakes
    \/ Len(stakes) = 3 /\ Serialize
    \/ Len(stakes) = 3 /\ ScenarioDeserialize

\* The concrete scenario of the testable properties, from new().
SpecScenario == Init /\ [][NextScenario]_vars

\* The MLW as a value.
Mlw == MLW(Self, projects, tasks)

\* The Stakes the three collections hold together.
Total == Len(stakes) + Len(projects.stakes) + Len(tasks.stakes)

\* mlw.new_project(name, parent_id, note), called when the clock shows t
NewProject(name, parent_id, note, t) ==
    /\ LET r == new_project(Mlw, name, parent_id, note, t) IN
        /\ stakes' = r.mlw.areas.stakes
        /\ next_id' = r.mlw.areas.next_id
        /\ projects' = r.mlw.projects
        /\ tasks' = r.mlw.tasks
        /\ CallWith("new_project", None, None, None, Some(t), "", <<>>, None,
                    Some(r.ret))
    /\ given' = Some([stake_name |-> name, parent_id |-> parent_id, note |-> note])
    /\ UNCHANGED <<issued, disciplined, held>>

\* mlw.update_project(stake), called when the clock shows t
UpdateProject(stake, t) ==
    /\ LET r == update_project(Mlw, stake) IN
        /\ stakes' = r.mlw.areas.stakes
        /\ next_id' = r.mlw.areas.next_id
        /\ projects' = r.mlw.projects
        /\ tasks' = r.mlw.tasks
        /\ CallWith("update_project", Some(stake), None, None, Some(t), r.ret, <<>>,
                    None, None)
    /\ given' = None
    /\ UNCHANGED <<issued, disciplined, held>>

\* mlw.mark_project_complete(&id), called when the clock shows t
MarkProjectComplete(id, t) ==
    /\ LET r == mark_project_complete(Mlw, id, t) IN
        /\ stakes' = r.mlw.areas.stakes
        /\ next_id' = r.mlw.areas.next_id
        /\ projects' = r.mlw.projects
        /\ tasks' = r.mlw.tasks
        /\ CallWith("mark_project_complete", None, Some(id), None, Some(t), r.ret,
                    <<>>, None, None)
    /\ given' = None
    /\ UNCHANGED <<issued, disciplined, held>>

\* mlw.mark_project_dropped(&id), called when the clock shows t
MarkProjectDropped(id, t) ==
    /\ LET r == mark_project_dropped(Mlw, id, t) IN
        /\ stakes' = r.mlw.areas.stakes
        /\ next_id' = r.mlw.areas.next_id
        /\ projects' = r.mlw.projects
        /\ tasks' = r.mlw.tasks
        /\ CallWith("mark_project_dropped", None, Some(id), None, Some(t), r.ret,
                    <<>>, None, None)
    /\ given' = None
    /\ UNCHANGED <<issued, disciplined, held>>

\* mlw.get_project_by_id(&id)
GetProjectById(id) ==
    /\ CallWith("get_project_by_id", None, Some(id), None, None, "", <<>>, None,
                Some(get_project_by_id(Mlw, id)))
    /\ given' = None
    /\ UNCHANGED <<stakes, next_id, projects, tasks, issued, disciplined, held>>

\* mlw.new_task(name, parent_id, note), called when the clock shows t
NewTask(name, parent_id, note, t) ==
    /\ LET r == new_task(Mlw, name, parent_id, note, t) IN
        /\ stakes' = r.mlw.areas.stakes
        /\ next_id' = r.mlw.areas.next_id
        /\ projects' = r.mlw.projects
        /\ tasks' = r.mlw.tasks
        /\ CallWith("new_task", None, None, None, Some(t), "", <<>>, None,
                    Some(r.ret))
    /\ given' = Some([stake_name |-> name, parent_id |-> parent_id, note |-> note])
    /\ UNCHANGED <<issued, disciplined, held>>

\* mlw.update_task(stake), called when the clock shows t
UpdateTask(stake, t) ==
    /\ LET r == update_task(Mlw, stake) IN
        /\ stakes' = r.mlw.areas.stakes
        /\ next_id' = r.mlw.areas.next_id
        /\ projects' = r.mlw.projects
        /\ tasks' = r.mlw.tasks
        /\ CallWith("update_task", Some(stake), None, None, Some(t), r.ret, <<>>,
                    None, None)
    /\ given' = None
    /\ UNCHANGED <<issued, disciplined, held>>

\* mlw.mark_task_complete(&id), called when the clock shows t
MarkTaskComplete(id, t) ==
    /\ LET r == mark_task_complete(Mlw, id, t) IN
        /\ stakes' = r.mlw.areas.stakes
        /\ next_id' = r.mlw.areas.next_id
        /\ projects' = r.mlw.projects
        /\ tasks' = r.mlw.tasks
        /\ CallWith("mark_task_complete", None, Some(id), None, Some(t), r.ret,
                    <<>>, None, None)
    /\ given' = None
    /\ UNCHANGED <<issued, disciplined, held>>

\* mlw.mark_task_dropped(&id), called when the clock shows t
MarkTaskDropped(id, t) ==
    /\ LET r == mark_task_dropped(Mlw, id, t) IN
        /\ stakes' = r.mlw.areas.stakes
        /\ next_id' = r.mlw.areas.next_id
        /\ projects' = r.mlw.projects
        /\ tasks' = r.mlw.tasks
        /\ CallWith("mark_task_dropped", None, Some(id), None, Some(t), r.ret,
                    <<>>, None, None)
    /\ given' = None
    /\ UNCHANGED <<issued, disciplined, held>>

\* mlw.get_task_by_id(&id)
GetTaskById(id) ==
    /\ CallWith("get_task_by_id", None, Some(id), None, None, "", <<>>, None,
                Some(get_task_by_id(Mlw, id)))
    /\ given' = None
    /\ UNCHANGED <<stakes, next_id, projects, tasks, issued, disciplined, held>>

\* The Stakes handed to update_area, update_project and update_task when the
\* three categories are followed together: the renamed, marked copies.
UpdatedStakeInputs == {s \in MarkedStakeInputs : s.complete}

\* The ids handed to the mark helpers and to get_*_by_id: every id a
\* collection can hold and one it cannot.
IdInputs == {StakeId(id) : id \in 1..(MaxStakeId + 1)}

\* Every new_* call is followed at clock reading 0 and every later call at
\* clock reading MaxTime; an area has no parent, a project is followed with a
\* parent and no note, a task with another parent, an empty name and a note.
NextMLW ==
    \/ Total < MaxStakes /\ NewArea(<<"a">>, None, 0)
    \/ \E stake \in UpdatedStakeInputs : UpdateArea(stake, MaxTime)
    \/ \E id \in IdInputs : MarkAreaComplete(id, MaxTime)
    \/ \E id \in IdInputs : MarkAreaDropped(id, MaxTime)
    \/ \E id \in IdInputs : GetById(id)
    \/ Total < MaxStakes /\ NewProject(<<"a">>, Some(StakeId(1)), None, 0)
    \/ \E stake \in UpdatedStakeInputs : UpdateProject(stake, MaxTime)
    \/ \E id \in IdInputs : MarkProjectComplete(id, MaxTime)
    \/ \E id \in IdInputs : MarkProjectDropped(id, MaxTime)
    \/ \E id \in IdInputs : GetProjectById(id)
    \/ Total < MaxStakes /\ NewTask(<<>>, Some(StakeId(2)), Some(<<"n">>), 0)
    \/ \E stake \in UpdatedStakeInputs : UpdateTask(stake, MaxTime)
    \/ \E id \in IdInputs : MarkTaskComplete(id, MaxTime)
    \/ \E id \in IdInputs : MarkTaskDropped(id, MaxTime)
    \/ \E id \in IdInputs : GetTaskById(id)

\* An MLW under its public operations, from MLW::new().
SpecMLW == Init /\ [][NextMLW]_vars

\* The counters a decoded document can carry next to the largest u32:
\* 4294967295 and the MaxId values below it.
EdgeIds == {StakeId(U32_MAX - k) : k \in 0..MaxId}

\* The collections whose encodings are decoded before generate_id is followed
\* to the edge of the counter: no Stake or one, and a counter at the edge.
EdgeCollections ==
    { Collection(v, n) :
        v \in {<<>>} \cup {<<stake>> : stake \in StakeInputs}, n \in EdgeIds }

\* let mut collection: StakesCollection = serde_json::from_str(&json).unwrap();
\* for the encoding json of a collection whose counter is at the edge.
InitEdge ==
    /\ \E c \in EdgeCollections :
        /\ doc = Some(serialize(c))
        /\ decoded = Some(deserialize(serialize(c)))
    /\ Unwrap(decoded).ok
    /\ stakes = Unwrap(decoded).value.stakes
    /\ next_id = Unwrap(decoded).value.next_id
    /\ projects = new
    /\ tasks = new
    /\ op = "deserialize"
    /\ arg = None
    /\ arg_id = None
    /\ ret_id = None
    /\ ret_res = ""
    /\ ret_list = <<>>
    /\ issued = <<>>
    /\ disciplined = FALSE
    /\ query = None
    /\ now = None
    /\ ret_bool = None
    /\ ret_stake = None
    /\ given = None
    /\ ret_len = None
    /\ held = None

\* collection.generate_id() in a build with or without overflow checks: it
\* returns an id, or it panics (ret_res "panic") and the caller goes no further.
GenerateIdInBuild(overflow_checks) ==
    /\ ret_res # "panic"
    /\ Len(issued) <= MaxId
    /\ LET r == generate_id_in_build(Self, overflow_checks) IN
        /\ stakes' = r.coll.stakes
        /\ next_id' = r.coll.next_id
        /\ issued' = IF r.panicked THEN issued ELSE Append(issued, Unwrap(r.ret))
        /\ Call("generate_id", None, None, r.ret,
                IF r.panicked THEN "panic" ELSE "", <<>>, None, None)
    /\ UNCHANGED <<disciplined, held, projects, tasks>>

NextEdge ==
    \E overflow_checks \in BOOLEAN : GenerateIdInBuild(overflow_checks)

\* generate_id on decoded collections whose counter is at the edge of u32.
SpecEdge == InitEdge /\ [][NextEdge]_vars

\* ------------------------------------------------------------------- claims

\* C1: the values generate_id has returned, in call order and whatever
\* add_stake calls came in between, are pairwise distinct and strictly
\* increasing, each exactly one greater than the one before, and next_id is
\* the first value returned plus the number of calls.
C1_GenerateIdConsecutive ==
    /\ \A i \in 1..(Len(issued) - 1) : issued[i + 1] = issued[i] + 1
    /\ \A i, j \in DOMAIN issued :
            i < j => issued[i] # issued[j] /\ u32_lt(issued[i], issued[j])
    /\ issued # <<>> => next_id = issued[1] + Len(issued)
    /\ op = "generate_id" => ret_id = Some(issued[Len(issued)])

\* C1 witness: a third generate_id call has returned, with Stakes added between the calls.
C1_Witness == op = "generate_id" /\ Len(issued) = 3 /\ Len(stakes) = 2

\* C2 as stated: in every reachable state every stored Stake has an id
\* strictly less than next_id and no two stored Stakes share an id.
C2_StoredIdsBelowNextIdAndUnique ==
    /\ \A i \in DOMAIN stakes : u32_lt(stakes[i].stake_id, next_id)
    /\ \A i, j \in DOMAIN stakes : i # j => stakes[i].stake_id # stakes[j].stake_id

\* C2 amended: as long as every add_stake so far was given a Stake whose id
\* generate_id had already returned and no stored Stake carried, every stored
\* Stake has an id strictly less than next_id and no two stored Stakes share an id.
C2_DisciplinedIdsBelowNextIdAndUnique ==
    disciplined => C2_StoredIdsBelowNextIdAndUnique

\* C2 witness: two issued ids were added and one of the Stakes was then updated.
C2_Witness ==
    /\ disciplined
    /\ Len(stakes) = 2
    /\ op = "update_stake"
    /\ ret_res = "Ok"

\* C3 as stated: generate_id never returns an id that a stored Stake carries.
C3_GeneratedIdNotStored ==
    op = "generate_id" => Unwrap(ret_id) \notin StoredIds

\* C3 amended: a generate_id call made when every stored Stake has an id below
\* next_id returns an id that no stored Stake carries.
C3_GeneratedIdNotStoredWhenIdsBelow ==
    [][(op' = "generate_id" /\ \A i \in DOMAIN stakes : u32_lt(stakes[i].stake_id, next_id))
        => (Unwrap(ret_id') \notin StoredIds')]_vars

\* C3 witness: generate_id has returned while two Stakes with issued ids are stored.
C3_Witness ==
    /\ op = "generate_id"
    /\ Len(stakes) = 2
    /\ \A i \in DOMAIN stakes : u32_lt(stakes[i].stake_id, Unwrap(ret_id))

\* C4: update_stake(s') on a collection holding a Stake with id s'.id returns
\* Ok, after which get_by_id(s'.id) is s', equal in every field, and len() is
\* what it was before the call.
C4_UpdateRoundTrip ==
    [][(op' = "update_stake" /\ Unwrap(arg').stake_id \in StoredIds)
        => /\ ret_res' = "Ok"
           /\ get_by_id(Self', Unwrap(arg').stake_id) = Some(Unwrap(arg'))
           /\ \A f \in DOMAIN Unwrap(arg') :
                Unwrap(get_by_id(Self', Unwrap(arg').stake_id))[f] = Unwrap(arg')[f]
           /\ len(Self') = len(Self)]_vars

\* C4 witness: an update has replaced one of two Stakes stored under the same
\* id by a value that differs from both.
C4_Witness ==
    /\ op = "update_stake"
    /\ ret_res = "Ok"
    /\ Len(stakes) = 2
    /\ stakes[1] = Unwrap(arg)
    /\ stakes[2].stake_id = stakes[1].stake_id
    /\ stakes[2] # stakes[1]

\* C5: update_stake(s) on a collection holding no Stake with id s.id returns
\* the NotFound error and leaves the Stakes, their order, the length and
\* next_id as they were.
C5_UpdateMissUnchanged ==
    [][(op' = "update_stake" /\ Unwrap(arg').stake_id \notin StoredIds)
        => /\ ret_res' = "StakeNotFound"
           /\ stakes' = stakes
           /\ Len(stakes') = Len(stakes)
           /\ next_id' = next_id]_vars

\* C5 witness: an update was refused on a collection of two Stakes.
C5_Witness ==
    /\ op = "update_stake"
    /\ ret_res = "StakeNotFound"
    /\ Len(stakes) = 2
    /\ Unwrap(arg).stake_id \notin StoredIds

\* C6: a successful update_stake(s') puts s' at the position of the matching
\* Stake: the ids are in the same order as before, every Stake with another
\* id is unchanged, and next_id is unchanged.
C6_UpdateInPlace ==
    [][(op' = "update_stake" /\ ret_res' = "Ok")
        => /\ Len(stakes') = Len(stakes)
           /\ \A i \in DOMAIN stakes : stakes'[i].stake_id = stakes[i].stake_id
           /\ \A i \in DOMAIN stakes :
                stakes[i].stake_id # Unwrap(arg').stake_id => stakes'[i] = stakes[i]
           /\ \E i \in DOMAIN stakes :
                /\ stakes[i].stake_id = Unwrap(arg').stake_id
                /\ stakes'[i] = Unwrap(arg')
                /\ \A k \in DOMAIN stakes : k # i => stakes'[k] = stakes[k]
           /\ next_id' = next_id]_vars

\* C6 witness: an update has replaced the first of two Stakes with different ids.
C6_Witness ==
    /\ op = "update_stake"
    /\ ret_res = "Ok"
    /\ Len(stakes) = 2
    /\ stakes[1] = Unwrap(arg)
    /\ stakes[2].stake_id # stakes[1].stake_id

\* C7: decoding the encoding of a collection yields that collection: the same
\* next_id and the same Stakes in the same order, equal in every field.
C7_EncodeDecodeRoundTrip ==
    (op = "deserialize" /\ Unwrap(doc) = serialize(Self))
        => /\ Unwrap(decoded).ok
           /\ Unwrap(decoded).value.next_id = next_id
           /\ Len(Unwrap(decoded).value.stakes) = Len(stakes)
           /\ \A i \in DOMAIN stakes :
                \A f \in DOMAIN stakes[i] :
                    Unwrap(decoded).value.stakes[i][f] = stakes[i][f]
           /\ Unwrap(decoded) = Ok(Self)

\* C7 witness: the encoding of two Stakes, one with a parent, a note and
\* sub-second dates, was decoded.
C7_Witness ==
    /\ op = "deserialize"
    /\ Unwrap(doc) = serialize(Self)
    /\ Len(stakes) = 2
    /\ \E i \in DOMAIN stakes :
        /\ stakes[i].parent_id # None
        /\ stakes[i].note # None
        /\ stakes[i].date_modified % NanosPerSec # 0

\* The keys of the document decoded last, in document order.
DocKeys == [i \in DOMAIN Unwrap(doc).value |-> Unwrap(doc).value[i][1]]

\* The document decoded last has exactly one nextId, exactly one stakes and
\* no other top-level key.
DocHasExactlyTheTwoFields ==
    /\ Cardinality({i \in DOMAIN DocKeys : DocKeys[i] = "nextId"}) = 1
    /\ Cardinality({i \in DOMAIN DocKeys : DocKeys[i] = "stakes"}) = 1
    /\ \A i \in DOMAIN DocKeys : DocKeys[i] \in {"nextId", "stakes"}

\* C8: decoding succeeds only for a document whose top-level fields are
\* exactly one nextId and exactly one stakes; a document missing either,
\* holding either twice or holding any other key is rejected with a decode
\* error and yields no collection.
C8_DecodeOnlyTheTwoFields ==
    op = "deserialize"
        => /\ Unwrap(decoded).ok => DocHasExactlyTheTwoFields
           /\ ~DocHasExactlyTheTwoFields =>
                /\ ~Unwrap(decoded).ok
                /\ DOMAIN Unwrap(decoded) = {"ok", "error"}
                /\ Unwrap(decoded).error \in
                        {"missing_field", "duplicate_field", "unknown_field"}

\* C8 witness: a document holding nextId and stakes once each and one more
\* key was rejected.
C8_Witness ==
    /\ op = "deserialize"
    /\ ~Unwrap(decoded).ok
    /\ Len(DocKeys) = 3
    /\ Cardinality({i \in DOMAIN DocKeys : DocKeys[i] = "nextId"}) = 1
    /\ Cardinality({i \in DOMAIN DocKeys : DocKeys[i] = "stakes"}) = 1

\* C9: a collection decoded from the encoding of c has c's counter as its
\* next_id, so generate_id on it returns what generate_id on c returns.
C9_DecodedContinuesIssuance ==
    (op = "deserialize" /\ Unwrap(decoded).ok)
        => /\ next_id_peek(Unwrap(decoded).value) = next_id_peek(Self)
           /\ generate_id(Unwrap(decoded).value).ret = generate_id(Self).ret
           /\ generate_id(Unwrap(decoded).value).coll.next_id = generate_id(Self).coll.next_id

\* C9 witness: a collection whose counter is past the ids of its two Stakes
\* was decoded from its encoding.
C9_Witness ==
    /\ op = "deserialize"
    /\ Unwrap(decoded).ok
    /\ Len(stakes) = 2
    /\ \A i \in DOMAIN stakes : u32_lt(stakes[i].stake_id, next_id)
    /\ Unwrap(decoded).value.next_id = next_id

\* The positions of the stored Stakes whose parent_id is Some(p).
ChildPositions(p) == {i \in DOMAIN stakes : stakes[i].parent_id = Some(p)}

\* C10: get_children(p) returns exactly the stored Stakes whose parent_id is
\* Some(p), in collection order, and the empty sequence when there is none.
C10_GetChildrenExact ==
    op = "get_children"
        => LET idx == ChildPositions(Unwrap(arg_id)) IN
           /\ Len(ret_list) = Cardinality(idx)
           /\ \A k \in DOMAIN ret_list :
                \E i \in idx :
                    /\ Cardinality({j \in idx : j < i}) = k - 1
                    /\ ret_list[k] = stakes[i]
           /\ idx = {} => ret_list = <<>>

\* C10 witness: get_children returned the second of two Stakes, the first
\* being a child of another parent.
C10_Witness ==
    /\ op = "get_children"
    /\ Len(stakes) = 2
    /\ ret_list = <<stakes[2]>>
    /\ stakes[1].parent_id # None

\* list is the stored Stakes at the positions idx, in collection order.
IsSelection(list, idx) ==
    /\ Len(list) = Cardinality(idx)
    /\ \A k \in DOMAIN list :
        \E i \in idx :
            /\ Cardinality({j \in idx : j < i}) = k - 1
            /\ list[k] = stakes[i]

\* The text between the first and the last non-whitespace char of q, lower-cased.
TrimmedLower(q) ==
    LET inked == {i \in DOMAIN q : ~is_whitespace(q[i])} IN
    IF inked = {} THEN <<>>
    ELSE LET lo == CHOOSE i \in inked : \A j \in inked : i <= j
             hi == CHOOSE i \in inked : \A j \in inked : j <= i
         IN  [i \in 1..(hi - lo + 1) |-> char_to_lowercase(q[lo + i - 1])]

\* The lower-cased name holds the text n at some offset, char for char.
NameHolds(name, n) ==
    \E k \in 0..(Len(name) - Len(n)) :
        \A j \in DOMAIN n : char_to_lowercase(name[k + j]) = n[j]

\* C11: search_by_name(q) returns, in collection order, exactly the Stakes whose
\* lower-cased name contains the lower-cased, whitespace-trimmed q as a
\* contiguous substring; when q is empty or all whitespace it returns every
\* Stake of the collection, whatever its flags.
C11_SearchByNameExact ==
    op = "search_by_name"
        => LET n == TrimmedLower(Unwrap(query)) IN
           /\ IsSelection(ret_list,
                          {i \in DOMAIN stakes : NameHolds(stakes[i].stake_name, n)})
           /\ (\A i \in DOMAIN Unwrap(query) : is_whitespace(Unwrap(query)[i]))
                => ret_list = stakes

\* C11 witness: a query padded with spaces and written in upper case found the
\* second of two Stakes, by the letter that ends its mixed-case name, and not
\* the first, whose name is empty.
C11_Witness ==
    /\ op = "search_by_name"
    /\ query = Some(<<" ", "B", " ">>)
    /\ Len(stakes) = 2
    /\ stakes[1].stake_name = <<>>
    /\ stakes[2].stake_name = <<"A", "b">>
    /\ ret_list = <<stakes[2]>>

\* C12: active_stakes() is exactly the Stakes with complete = false and
\* dropped = false and completed_stakes() exactly the Stakes with complete =
\* true, both in collection order; the two results are disjoint, and a Stake
\* with both flags true is in completed_stakes() and not in active_stakes().
C12_ActiveCompletedPartition ==
    /\ op = "active_stakes"
        => IsSelection(ret_list,
                       {i \in DOMAIN stakes : ~stakes[i].complete /\ ~stakes[i].dropped})
    /\ op = "completed_stakes"
        => IsSelection(ret_list, {i \in DOMAIN stakes : stakes[i].complete})
    /\ Range(active_stakes(Self)) \cap Range(completed_stakes(Self)) = {}
    /\ \A i \in DOMAIN stakes :
        (stakes[i].complete /\ stakes[i].dropped)
            => /\ stakes[i] \in Range(completed_stakes(Self))
               /\ stakes[i] \notin Range(active_stakes(Self))

\* C12 witness: completed_stakes returned the second of two Stakes, one that is
\* complete and dropped, the first being active.
C12_Witness ==
    /\ op = "completed_stakes"
    /\ Len(stakes) = 2
    /\ is_active(stakes[1])
    /\ stakes[2].complete /\ stakes[2].dropped
    /\ ret_list = <<stakes[2]>>
    /\ active_stakes(Self) = <<stakes[1]>>

\* C13: get_by_id(id) returns the first Stake in collection order whose id is
\* id, the earlier-inserted one when two share it, and None exactly when no
\* stored Stake has that id, the empty collection included.
C13_GetByIdFirstMatch ==
    op = "get_by_id"
        => LET idx == {i \in DOMAIN stakes : stakes[i].stake_id = Unwrap(arg_id)}
               r == Unwrap(ret_stake)
           IN  /\ r = None <=> idx = {}
               /\ idx # {} => \E i \in idx : (\A j \in idx : i <= j) /\ r = Some(stakes[i])

\* C13 witness: get_by_id returned the first of two different Stakes stored
\* under the same id.
C13_Witness ==
    /\ op = "get_by_id"
    /\ Len(stakes) = 2
    /\ stakes[1].stake_id = Unwrap(arg_id)
    /\ stakes[2].stake_id = Unwrap(arg_id)
    /\ stakes[1] # stakes[2]
    /\ ret_stake = Some(Some(stakes[1]))

\* C14: add_stake(s) succeeds for any s, one whose id a stored Stake carries or
\* whose id is not below next_id included: afterwards the items are the
\* previous items in their order followed by s, len() has grown by exactly one
\* and next_id is unchanged.
C14_AddStakeAppends ==
    [][op' = "add_stake"
        => /\ Len(stakes') = Len(stakes) + 1
           /\ \A i \in DOMAIN stakes : stakes'[i] = stakes[i]
           /\ stakes'[Len(stakes')] = Unwrap(arg')
           /\ len(Self') = len(Self) + 1
           /\ next_id' = next_id]_vars

\* C14 witness: add_stake stored a second Stake under the id of the first, an
\* id that is not below next_id.
C14_Witness ==
    /\ op = "add_stake"
    /\ Len(stakes) = 2
    /\ stakes[2] = Unwrap(arg)
    /\ stakes[1].stake_id = stakes[2].stake_id
    /\ ~u32_lt(stakes[2].stake_id, next_id)

\* C15: a collection returned by new() has no Stakes (len() = 0, is_empty()) and
\* next_id = 1, so the first generate_id on it returns 1; in every state
\* is_empty() is true exactly when len() = 0.
C15_NewIsEmptyFromOne ==
    /\ op = "new"
        => /\ stakes = <<>>
           /\ len(Self) = 0
           /\ is_empty(Self)
           /\ next_id = 1
    /\ issued # <<>> => issued[1] = 1
    /\ (op = "generate_id" /\ Len(issued) = 1) => ret_id = Some(1)
    /\ is_empty(Self) <=> (len(Self) = 0)

\* C15 witness: the first generate_id on a collection from new() has returned,
\* a Stake having been added before it.
C15_Witness ==
    /\ op = "generate_id"
    /\ Len(issued) = 1
    /\ ret_id = Some(1)
    /\ ~is_empty(Self)

\* C16: Stake::new(id, name, parent_id, note) returns a Stake carrying exactly
\* the given id, name, parent_id and note, with complete = false, dropped =
\* false, is_active() = true and date_created equal to date_modified, for every
\* input, an empty name and an absent parent or note included.
C16_StakeNewFields ==
    op = "Stake::new"
        => LET s == Unwrap(held)
               g == Unwrap(given)
           IN  /\ s.stake_id = g.stake_id
               /\ s.stake_name = g.stake_name
               /\ s.parent_id = g.parent_id
               /\ s.note = g.note
               /\ s.complete = FALSE
               /\ s.dropped = FALSE
               /\ is_active(s)
               /\ s.date_created = s.date_modified
               /\ s.date_created = Unwrap(now)

\* C16 witness: Stake::new was given an empty name and no parent and no note,
\* at a time other than the start of the clock.
C16_Witness ==
    /\ op = "Stake::new"
    /\ Unwrap(given).stake_name = <<>>
    /\ Unwrap(given).parent_id = None
    /\ Unwrap(given).note = None
    /\ Unwrap(held).date_created = 1

\* The fields of a Stake that neither mark touches.
SameButFlagsAndModified(a, b) ==
    /\ a.stake_id = b.stake_id
    /\ a.stake_name = b.stake_name
    /\ a.parent_id = b.parent_id
    /\ a.note = b.note
    /\ a.date_created = b.date_created

\* C17: mark_complete sets complete to true and mark_dropped sets dropped to
\* true; each leaves the other flag and id, name, parent_id, note and
\* date_created unchanged, sets date_modified to the current time and nothing
\* else, and applied to a Stake it already marked leaves both flags as they were.
C17_MarksSetOneFlag ==
    /\ op = "mark_complete"
        => LET a == Unwrap(arg)
               s == Unwrap(held)
           IN  /\ s.complete
               /\ s.dropped = a.dropped
               /\ SameButFlagsAndModified(s, a)
               /\ s.date_modified = Unwrap(now)
               /\ a.complete => (s.complete = a.complete /\ s.dropped = a.dropped)
    /\ op = "mark_dropped"
        => LET a == Unwrap(arg)
               s == Unwrap(held)
           IN  /\ s.dropped
               /\ s.complete = a.complete
               /\ SameButFlagsAndModified(s, a)
               /\ s.date_modified = Unwrap(now)
               /\ a.dropped => (s.complete = a.complete /\ s.dropped = a.dropped)

\* C17 witness: mark_complete was applied to a Stake that was complete and
\* dropped already, at a time other than its date_modified.
C17_Witness ==
    /\ op = "mark_complete"
    /\ Unwrap(arg).complete
    /\ Unwrap(arg).dropped
    /\ Unwrap(held).dropped
    /\ Unwrap(held).date_modified # Unwrap(arg).date_modified
    /\ Unwrap(held).date_modified # Unwrap(held).date_created

\* C18: for each of the four combinations of complete and dropped, is_active()
\* is true exactly when both flags are false, and the call changes no field.
C18_IsActiveBothFlagsFalse ==
    /\ op = "is_active"
        => /\ held = arg
           /\ ret_bool = Some(~Unwrap(held).complete /\ ~Unwrap(held).dropped)
    /\ held # None
        => \A c, d \in BOOLEAN :
            is_active([Unwrap(held) EXCEPT !.complete = c, !.dropped = d])
                = (c = FALSE /\ d = FALSE)

\* C18 witness: is_active returned false on a Stake complete and not dropped.
C18_Witness ==
    /\ op = "is_active"
    /\ Unwrap(held).complete
    /\ ~Unwrap(held).dropped
    /\ ret_bool = Some(FALSE)

\* The Stake stored under id, the first one when several carry it, before and
\* after a step, for the ids stored before it.
StoredBefore(id) == Unwrap(get_by_id(Self, id))
StoredAfter(id) == Unwrap(get_by_id(Self', id))

C22_NoStakeRemoved ==
    [][/\ len(Self') >= len(Self)
       /\ \A id \in 1..(MaxStakeId + 1) :
            get_by_id(Self, StakeId(id)) # None
                => get_by_id(Self', StakeId(id)) # None]_vars

\* C22 witness: update_stake has replaced a Stake of a collection of two Stakes
\* with different ids, and both ids are still found.
C22_Witness ==
    /\ op = "update_stake"
    /\ ret_res = "Ok"
    /\ len(Self) = 2
    /\ stakes[1].stake_id # stakes[2].stake_id
    /\ get_by_id(Self, stakes[1].stake_id) # None
    /\ get_by_id(Self, stakes[2].stake_id) # None

\* The operations that take &self on a collection.
Reads ==
    {"get_by_id", "get_children", "search_by_name", "active_stakes",
     "completed_stakes", "len", "is_empty", "next_id"}

\* C23: the read operations get_by_id, get_children, search_by_name,
\* active_stakes, completed_stakes, len, is_empty and next_id return on every
\* collection, the empty one included, with None or the empty sequence when
\* nothing matches, and leave the items and next_id as they were; next_id()
\* returns the id generate_id returns after it, so it consumes none.
C23_ReadsTotalAndPure ==
    [][op' \in Reads =>
        /\ stakes' = stakes
        /\ next_id' = next_id
        /\ op' = "get_by_id" =>
            /\ ret_stake' # None
            /\ Unwrap(arg_id') \notin StoredIds => ret_stake' = Some(None)
        /\ op' = "get_children" =>
            (ChildPositions(Unwrap(arg_id')) = {} => ret_list' = <<>>)
        /\ op' = "search_by_name" =>
            ((\A i \in DOMAIN stakes :
                ~NameHolds(stakes[i].stake_name, TrimmedLower(Unwrap(query'))))
                => ret_list' = <<>>)
        /\ op' = "active_stakes" =>
            ((\A i \in DOMAIN stakes : ~is_active(stakes[i])) => ret_list' = <<>>)
        /\ op' = "completed_stakes" =>
            ((\A i \in DOMAIN stakes : ~stakes[i].complete) => ret_list' = <<>>)
        /\ op' = "len" => ret_len' = Some(Len(stakes))
        /\ op' = "is_empty" => ret_bool' = Some(stakes = <<>>)
        /\ op' = "next_id" =>
            /\ ret_id' = Some(next_id)
            /\ generate_id(Self').ret = Unwrap(ret_id')]_vars

\* C23 witness: get_by_id was asked for an id no Stake carries, in a collection
\* that holds another Stake, and returned None.
C23_Witness ==
    /\ op = "get_by_id"
    /\ stakes # <<>>
    /\ Unwrap(arg_id) \notin StoredIds
    /\ ret_stake = Some(None)

\* C24: starting from an empty collection, three generate_id calls return 1, 2,
\* 3; after adding Stakes with those ids named A (no parent), B (parent 1) and
\* C (dropped), get_children(1) returns exactly B, active_stakes() returns A
\* then B, completed_stakes() is empty, and encoding then decoding yields a
\* collection with next_id = 4 holding the same three Stakes in the same order.
C24_ConcreteScenario ==
    /\ \A k \in DOMAIN issued : issued[k] = StakeId(k)
    /\ Len(stakes) = 3 =>
        /\ [i \in 1..3 |-> stakes[i].stake_name] = << <<"A">>, <<"B">>, <<"C">> >>
        /\ [i \in 1..3 |-> stakes[i].stake_id] = <<StakeId(1), StakeId(2), StakeId(3)>>
        /\ op = "get_children" => ret_list = <<stakes[2]>>
        /\ op = "active_stakes" => ret_list = <<stakes[1], stakes[2]>>
        /\ op = "completed_stakes" => ret_list = <<>>
        /\ op = "deserialize" =>
            /\ Unwrap(decoded).ok
            /\ Unwrap(decoded).value.next_id = StakeId(4)
            /\ Unwrap(decoded).value.stakes = stakes

\* C24 witness: the encoding of the three Stakes, C dropped at another time
\* than it was created, has been decoded.
C24_Witness ==
    /\ op = "deserialize"
    /\ issued = <<StakeId(1), StakeId(2), StakeId(3)>>
    /\ Len(stakes) = 3
    /\ stakes[3].dropped
    /\ stakes[3].date_modified # stakes[3].date_created
    /\ Unwrap(decoded).ok

\* The writing operations of each category.
AreaOps == {"new_area", "update_area", "mark_area_complete", "mark_area_dropped"}
ProjectOps ==
    {"new_project", "update_project", "mark_project_complete", "mark_project_dropped"}
TaskOps == {"new_task", "update_task", "mark_task_complete", "mark_task_dropped"}

\* C25: the three categories have independent id spaces: the first new_area,
\* the first new_project and the first new_task of an MLW each return id 1,
\* whatever the other categories hold, and a new, update or mark operation on
\* one category leaves the items and the next id of the other two unchanged.
C25_IndependentIdSpaces ==
    [][/\ (op' = "new_area" /\ stakes = <<>>)
            => Unwrap(ret_stake').stake_id = StakeId(1)
       /\ (op' = "new_project" /\ projects.stakes = <<>>)
            => Unwrap(ret_stake').stake_id = StakeId(1)
       /\ (op' = "new_task" /\ tasks.stakes = <<>>)
            => Unwrap(ret_stake').stake_id = StakeId(1)
       /\ op' \in AreaOps => (projects' = projects /\ tasks' = tasks)
       /\ op' \in ProjectOps => (Self' = Self /\ tasks' = tasks)
       /\ op' \in TaskOps => (Self' = Self /\ projects' = projects)]_vars

\* C25 witness: the first new_task returned id 1 in an MLW whose projects
\* already hold the project with id 1.
C25_Witness ==
    /\ op = "new_task"
    /\ Unwrap(ret_stake).stake_id = StakeId(1)
    /\ Len(tasks.stakes) = 1
    /\ get_project_by_id(Mlw, StakeId(1)) # None
    /\ next_id = StakeId(1)

\* A new_* call that took a category from before to after returned the Stake
\* ret for the given name, parent and note: ret carries the next id of before
\* and what was given, and is active; after is one Stake longer, its next id
\* one higher, and it holds a Stake equal to ret under ret's id.
ReturnedByNew(before, after, ret, name, parent_id, note) ==
    /\ ret.stake_id = before.next_id
    /\ ret.stake_name = name
    /\ ret.parent_id = parent_id
    /\ ret.note = note
    /\ ~ret.complete
    /\ ~ret.dropped
    /\ is_active(ret)
    /\ len(after) = len(before) + 1
    /\ after.next_id = before.next_id + 1
    /\ get_by_id(after, ret.stake_id) = Some(ret)

\* C26: new_area, new_project and new_task each return a Stake whose id is the
\* category's next id before the call, with the given name, note and parent
\* (no parent for an area) and active flags; afterwards the category's length
\* and next id have each grown by exactly one and get_*_by_id of the returned
\* id yields a Stake equal to the returned one.
C26_NewReturnsStoredStake ==
    [][/\ op' = "new_area" =>
            ReturnedByNew(Self, Self', Unwrap(ret_stake'),
                          Unwrap(given').stake_name, None, Unwrap(given').note)
       /\ op' = "new_project" =>
            ReturnedByNew(projects, projects', Unwrap(ret_stake'),
                          Unwrap(given').stake_name, Unwrap(given').parent_id,
                          Unwrap(given').note)
       /\ op' = "new_task" =>
            ReturnedByNew(tasks, tasks', Unwrap(ret_stake'),
                          Unwrap(given').stake_name, Unwrap(given').parent_id,
                          Unwrap(given').note)]_vars

\* C26 witness: new_project has returned the second project, with the parent
\* it was given, and get_project_by_id finds it.
C26_Witness ==
    /\ op = "new_project"
    /\ Len(projects.stakes) = 2
    /\ Unwrap(ret_stake).stake_id = StakeId(2)
    /\ Unwrap(ret_stake).parent_id = Some(StakeId(1))
    /\ get_project_by_id(Mlw, StakeId(2)) = ret_stake

\* The position of the first Stake of v with the id, for an id v holds.
FirstWith(v, id) ==
    CHOOSE i \in DOMAIN v :
        /\ v[i].stake_id = id
        /\ \A j \in 1..(i - 1) : v[j].stake_id # id

\* A mark helper that returned res took a category that holds the id from
\* before to after: it returned Ok; the Stake under the id has the flag set
\* (complete if completing, dropped if not) and differs from the one before in
\* that flag and date_modified at most; it is out of the active list and, if
\* completing, in the completed list; every other Stake, the order and the
\* next id are as before.
MarkedBy(before, after, id, res, completing) ==
    LET i == FirstWith(before.stakes, id)
        was == before.stakes[i]
        is == after.stakes[i]
    IN  /\ res = "Ok"
        /\ after.next_id = before.next_id
        /\ Len(after.stakes) = Len(before.stakes)
        /\ \A j \in DOMAIN before.stakes : j # i => after.stakes[j] = before.stakes[j]
        /\ IF completing
           THEN /\ is = [was EXCEPT !.complete = TRUE,
                                    !.date_modified = is.date_modified]
                /\ \E k \in DOMAIN completed_stakes(after) :
                        completed_stakes(after)[k] = is
           ELSE is = [was EXCEPT !.dropped = TRUE,
                                 !.date_modified = is.date_modified]
        /\ \A k \in DOMAIN active_stakes(after) :
                active_stakes(after)[k].stake_id # id

\* C27: mark_*_complete(id) and mark_*_dropped(id) on a category that holds a
\* Stake with that id return Ok and set only the corresponding flag (and
\* date_modified) of that stored Stake: after mark complete the Stake is in
\* the completed list and not in the active list, after mark dropped it is not
\* in the active list, and its position, name, parent, note, the other flag
\* and all other Stakes are unchanged.
C27_MarkHelpersSetOneFlag ==
    [][/\ (op' \in {"mark_area_complete", "mark_area_dropped"}
            /\ get_by_id(Self, Unwrap(arg_id')) # None)
            => MarkedBy(Self, Self', Unwrap(arg_id'), ret_res',
                        op' = "mark_area_complete")
       /\ (op' \in {"mark_project_complete", "mark_project_dropped"}
            /\ get_project_by_id(Mlw, Unwrap(arg_id')) # None)
            => MarkedBy(projects, projects', Unwrap(arg_id'), ret_res',
                        op' = "mark_project_complete")
       /\ (op' \in {"mark_task_complete", "mark_task_dropped"}
            /\ get_task_by_id(Mlw, Unwrap(arg_id')) # None)
            => MarkedBy(tasks, tasks', Unwrap(arg_id'), ret_res',
                        op' = "mark_task_complete")]_vars

\* C27 witness: mark_project_dropped has dropped the second of two projects,
\* which mark_project_complete had completed; it is still complete and the
\* first project is still active.
C27_Witness ==
    /\ op = "mark_project_dropped"
    /\ ret_res = "Ok"
    /\ arg_id = Some(StakeId(2))
    /\ Len(projects.stakes) = 2
    /\ projects.stakes[2].stake_name = <<"a">>
    /\ projects.stakes[2].complete
    /\ projects.stakes[2].dropped
    /\ active_stakes(projects) = <<projects.stakes[1]>>

\* C28: mark_*_complete(id) and mark_*_dropped(id) on a category that holds no
\* Stake with that id return the StakeNotFound error and leave all three
\* collections, items and next ids, unchanged.
C28_MarkMissLeavesAll ==
    [][((op' \in {"mark_area_complete", "mark_area_dropped"}
            /\ get_by_id(Self, Unwrap(arg_id')) = None)
        \/ (op' \in {"mark_project_complete", "mark_project_dropped"}
            /\ get_project_by_id(Mlw, Unwrap(arg_id')) = None)
        \/ (op' \in {"mark_task_complete", "mark_task_dropped"}
            /\ get_task_by_id(Mlw, Unwrap(arg_id')) = None))
        => /\ ret_res' = "StakeNotFound"
           /\ Mlw' = Mlw]_vars

\* C28 witness: mark_task_complete was asked for id 1 in an MLW that has a
\* project with id 1 and no task, and returned StakeNotFound.
C28_Witness ==
    /\ op = "mark_task_complete"
    /\ arg_id = Some(StakeId(1))
    /\ ret_res = "StakeNotFound"
    /\ tasks.stakes = <<>>
    /\ get_project_by_id(Mlw, StakeId(1)) # None

\* C29: generate_id completes normally and keeps issuance strictly increasing
\* for every value of the 32-bit counter, 4294967295 included (a decoded
\* document can carry it): no call fails, the ids issued are strictly
\* increasing, and next_id stays above every id issued, so it never wraps
\* around to a value that would re-issue an earlier id.
C29_GenerateIdNeverFailsNorWraps ==
    /\ ret_res # "panic"
    /\ \A i, j \in DOMAIN issued : i < j => u32_lt(issued[i], issued[j])
    /\ \A i \in DOMAIN issued : u32_lt(issued[i], next_id)

\* Every Stake of the category c has an id between 1 and c's next id minus 1,
\* and the ids stand in strictly increasing order, so no two Stakes share one.
IdsIssuedInOrder(c) ==
    /\ \A i \in DOMAIN c.stakes :
        /\ u32_lt(0, c.stakes[i].stake_id)
        /\ u32_lt(c.stakes[i].stake_id, c.next_id)
    /\ \A i, j \in DOMAIN c.stakes :
        /\ i < j => u32_lt(c.stakes[i].stake_id, c.stakes[j].stake_id)
        /\ i # j => c.stakes[i].stake_id # c.stakes[j].stake_id

\* C30: in every state an MLW reaches from MLW::new() through new_area,
\* new_project, new_task, update_*, mark_*_complete, mark_*_dropped and the
\* reads, and for each category, every stored Stake has an id between 1 and
\* the next id minus 1, no two stored Stakes share an id, and the stored ids
\* appear in strictly increasing order.
C30_MlwIdsIssuedInOrder ==
    /\ IdsIssuedInOrder(Self)
    /\ IdsIssuedInOrder(projects)
    /\ IdsIssuedInOrder(tasks)

\* C30 witness: update_project has replaced the second of two projects.
C30_Witness ==
    /\ op = "update_project"
    /\ ret_res = "Ok"
    /\ Len(projects.stakes) = 2
    /\ projects.stakes[1].stake_name = <<"a">>
    /\ projects.stakes[2].stake_name = <<"B">>
    /\ projects.next_id = StakeId(3)

====
